---- MODULE Spec2Model ----
(***************************************************************************)
(* State-machine model of main.py of the smart turntable: the button       *)
(* interrupt handler, the motor control task, the command handler, the     *)
(* status broadcaster and the settings and reboot requests, cooperatively  *)
(* scheduled under uasyncio.                                               *)
(*                                                                         *)
(* Scheduling.  uasyncio runs one task at a time; a task is left only at   *)
(* an await that suspends (sleep_ms, a socket send or receive).  Acquiring *)
(* a free uasyncio.Lock does not suspend.  The motor task is modelled      *)
(* statement group by statement group (variable pc); a websocket handler   *)
(* runs from one suspension to the next in one action, and only while the  *)
(* motor task is itself suspended.  The button interrupt pre-empts the     *)
(* running task at any point, also between the load and store of line 300. *)
(***************************************************************************)
EXTENDS Integers, Sequences, FiniteSets, TLC

\* ------------------------------------------------------------------ bounds
\* Clock granularity of the model (ms per Tick).
TickMs == 250
\* Remote commands, driver faults and physical presses followed.
MaxCmds == 3
MaxFaults == 1
MaxPresses == 2
\* Settings documents posted and reboots requested.
MaxPosts == 1
MaxReboots == 1

\* ------------------------------------------------------- program constants
LONG_PRESS_MS == 500
DEBOUNCE_MS == 250
SLOW_SPEED == 13
NORMAL_SPEED == 4
FAST_SPEED == 1
MEDIUM_DELAY == 1000
DEFAULT_DEG == 45
DEFAULT_TOTAL_STEPS == 4
FULL_TURN == 360
INITIAL_SPEED_INDEX == 1
NO_SPEED_APPLIED == -1
PULSE_STEPMS == 2
\* STEPS_PER_DEGREE = (1650688 * 6) / (360 * 810) is a double: the quotient
\* STEPS_NUM / STEPS_DEN (206336 / 6075 in lowest terms) rounded to 53 bits.
\* The double has FLOAT_FRACTION_BITS bits after the binary point and lies
\* below the quotient by FLOAT_DEFICIT / (6075 * 2^FLOAT_FRACTION_BITS).
STEPS_NUM == 1650688 * 6
STEPS_DEN == 360 * 810
STEPS_GCD == 48
FLOAT_MANTISSA_BITS == 53
FLOAT_FRACTION_BITS == 47
FLOAT_DEFICIT == 2908

\* ------------------------------------------------------------------ inputs
Client1 == "c1"
Client2 == "c2"
Clients == {Client1, Client2}
SpeedInputs == {1, 7}
\* Degrees of photo sequences without motor steps: of four steps (no
\* rotation for degrees that are not positive) and of one step.
DegInputs == {0, 360}
\* Degrees of a photo sequence of three steps.
RotateDeg == 120
\* Degrees below, at and beyond the range (0, 360]; at 6075 degrees the float
\* product of line 344 falls below the whole number of steps.
WideDegInputs == {-6075, -90, 0, 360, 400, 6075}
\* The "normal" speed and the "medium" delay of a posted settings document.
PostedNormal == 5
PostedMedium == 2000

VARIABLES
    \* globals of main.py
    op_mode, op_params, status_message, current_speed_index, trigger_mode,
    clients, lock,
    is_button_down, long_press_action_taken, button_action_pending,
    button_state,
    \* utime.ticks_ms() - button_press_start_time and
    \* utime.ticks_ms() - debounce_deadline, saturating
    sincePress, sinceDeadline,
    \* motor_control_task: position and locals
    pc, loc,
    \* websocket_handler tasks: position and the rest of the running broadcast
    wsPc, wsTodo,
    \* environment: the connections whose peer is gone
    broken,
    \* the stepper driver: its step interval, whether its coils are energized
    driver,
    \* the level of the wired shutter output
    wired_shutter,
    \* settings and SPIN_SPEEDS of main.py, the document that load_settings
    \* returns at the next boot (config.json, or the defaults in its place), and
    \* whether a request to /api/reboot is waiting to reset the device
    settings, SPIN_SPEEDS, config, reboot,
    \* environment: the pin level, budgets used
    pin, used,
    \* observers of the run (history variables read only by the properties)
    obs

globalVars == <<op_mode, op_params, status_message, current_speed_index, trigger_mode>>
buttonVars == <<is_button_down, long_press_action_taken, button_action_pending,
                button_state, sincePress, sinceDeadline>>
wsVars == <<wsPc, wsTodo, broken>>
settingVars == <<settings, SPIN_SPEEDS, config, reboot>>
vars == <<op_mode, op_params, status_message, current_speed_index, trigger_mode,
          clients, lock, is_button_down, long_press_action_taken,
          button_action_pending, button_state, sincePress, sinceDeadline,
          pc, loc, wsPc, wsTodo, broken, driver, wired_shutter,
          settings, SPIN_SPEEDS, config, reboot, pin, used, obs>>

\* ----------------------------------------------------------------- helpers
Min(a, b) == IF a < b THEN a ELSE b

\* A Python dict with string keys.
EmptyDict == [k \in {} |-> 0]
DictGet(d, k, default) == IF k \in DOMAIN d THEN d[k] ELSE default
DictPut(d, k, v) == [x \in (DOMAIN d) \cup {k} |-> IF x = k THEN v ELSE d[x]]

\* A settings document, reduced to the entries the program reads:
\* speeds_ms.slow/normal/fast, photo_delays_ms.medium, startup.autospin.
\* A document is a dict over some of these keys; reading a key that is
\* missing raises KeyError.
KeySlow == "speeds_ms.slow"
KeyNormal == "speeds_ms.normal"
KeyFast == "speeds_ms.fast"
KeyMedium == "photo_delays_ms.medium"
KeyAutospin == "startup.autospin"
SettingsDoc(slow, normal, fast, medium, autospin) ==
    [k \in {KeySlow, KeyNormal, KeyFast, KeyMedium, KeyAutospin} |->
        CASE k = KeySlow -> slow
          [] k = KeyNormal -> normal
          [] k = KeyFast -> fast
          [] k = KeyMedium -> medium
          [] OTHER -> autospin]
\* line 51-65: the defaults load_settings writes when there is no config.json.
DefaultSettings(autospin) ==
    SettingsDoc(SLOW_SPEED, NORMAL_SPEED, FAST_SPEED, MEDIUM_DELAY, autospin)
HasKey(d, k) == k \in DOMAIN d

\* speed in SPIN_SPEEDS / SPIN_SPEEDS.index(speed), as a Python (0-based) index
InSpeeds(speed) == \E i \in 1..Len(SPIN_SPEEDS) : SPIN_SPEEDS[i] = speed
SpeedIndex(speed) ==
    (CHOOSE i \in 1..Len(SPIN_SPEEDS) :
        /\ SPIN_SPEEDS[i] = speed
        /\ \A j \in 1..(i - 1) : SPIN_SPEEDS[j] # speed) - 1
SpeedAt(index) == SPIN_SPEEDS[index + 1]

\* Status texts: <<text, a, b>> with the numbers the f-string formats.
StReady == <<"Ready", 0, 0>>
StSpinning(speed) == <<"Spinning (speed: {}ms/step)", speed, 0>>
StTaking == <<"Taking picture...", 0, 0>>
StPictureDone == <<"Picture complete. Ready.", 0, 0>>
StProcessing(step, total) == <<"Sequence {}/{}: Processing...", step, total>>
StRotating(step, total) == <<"Sequence {}/{}: Rotating...", step, total>>
StSequenceDone == <<"Sequence complete. Ready.", 0, 0>>
StError == <<"Error: {}", 0, 0>>

\* line 343: 360 // deg if deg > 0 else 4.
TotalSteps(deg) == IF deg > 0 THEN FULL_TURN \div deg ELSE DEFAULT_TOTAL_STEPS
\* 2^k, and the position of the leading bit of n > 0.
RECURSIVE Pow2(_)
Pow2(k) == IF k <= 0 THEN 1 ELSE 2 * Pow2(k - 1)
RECURSIVE Log2(_)
Log2(n) == IF n <= 1 THEN 0 ELSE 1 + Log2(n \div 2)

\* The quotient STEPS_NUM / STEPS_DEN in lowest terms.
StepsNum == STEPS_NUM \div STEPS_GCD
StepsDen == STEPS_DEN \div STEPS_GCD

\* Floor of d * StepsNum / StepsDen for d >= 0, the product split so that it
\* stays within 32 bits (d = q * StepsDen + k).
ExactSteps(d) ==
    LET q == d \div StepsDen
        k == d % StepsDen
    IN  q * StepsNum + k * (StepsNum \div StepsDen)
          + ((k * (StepsNum % StepsDen)) \div StepsDen)

\* line 344 for deg = d >= 0: int(d * STEPS_PER_DEGREE), the double product
\* rounded to nearest and then truncated.  The double factor is short of the
\* quotient, so the product is short of d * StepsNum / StepsDen by
\* d * FLOAT_DEFICIT / (StepsDen * 2^FLOAT_FRACTION_BITS).  That is far less
\* than the 1 / StepsDen by which a fractional quotient exceeds its floor,
\* and matters only when the quotient is a whole number P (d = q * StepsDen,
\* P = q * StepsNum): the product P - q * FLOAT_DEFICIT / 2^FLOAT_FRACTION_BITS
\* rounds up to P when the shortfall is at most half a unit in the last
\* place of P, 2^(Log2(P) - FLOAT_MANTISSA_BITS), and otherwise stays below
\* P and truncates to P - 1 (6075 gives 206335).
StepsOfTurn(d) ==
    LET q == d \div StepsDen
        P == ExactSteps(d)
    IN  IF /\ d % StepsDen = 0
           /\ q > 0
           /\ q * FLOAT_DEFICIT >
                 Pow2(Log2(P) - (FLOAT_MANTISSA_BITS - FLOAT_FRACTION_BITS))
        THEN P - 1
        ELSE P
\* line 344: int(deg * STEPS_PER_DEGREE); int() truncates toward zero.
StepsPerRotation(deg) == IF deg >= 0 THEN StepsOfTurn(deg) ELSE -StepsOfTurn(-deg)

\* A lock that is not given back.
ReleaseForgotten(t) == t

\* The lock after `async with lock:` is left by task t.
Release(t) == "free"

\* The positions of the motor task inside its try block (line 308-373).
TryBlock == {"read_lock", "read_cs", "dispatch", "idle_sleep", "spin_lock", "spin_cs",
             "spin_step", "spin_yield", "trig_enter", "trig_pulse", "trig_settle",
             "pic_lock", "pic_cs", "seq_lock", "seq_cs", "seq_compute",
             "seq_delay_lock", "seq_delay_cs", "seq_delay", "seq_done_lock",
             "seq_done_cs", "rot_lock", "rot_cs", "rot_step", "rot_yield",
             "rot_after", "bcast_check", "hb_check", "bc_lock", "bc_cs", "bc_send"}

\* An except clause that lets the exception through.
RaiseUncaught(at) == "crashed"

\* line 374-376: where an exception raised at position `at` continues: in
\* the except clause when raised inside the try block, else out of the task.
Raise(at) == IF at \in TryBlock THEN "exc_lock" ELSE "crashed"

\* The positions at which the motor task is suspended in an await.
Suspended == {"idle_sleep", "spin_yield", "trig_pulse", "trig_settle",
              "seq_delay", "rot_yield", "bc_send"}
\* The positions of the task's button code (line 293-300) at which a run of
\* the interrupt handler has its own outcome: in front of line 293, 295,
\* 297 and 299, inside line 297 between its two stores, in front of line
\* 298, and inside line 300 between the load of the pending action and the
\* store of None.  (Between the tests of line 295-296 the handler does what
\* it does in front of line 295 or 297; between the stores of line 298 it
\* finds DEBOUNCING and returns.)  Nothing in the program holds the handler
\* back while the task runs these lines.
ButtonWindow == {"top", "poll_long", "fire_long", "fire_pending", "fire_debounce",
                 "take", "take_clear"}
\* The interrupt handler is followed where its order with the motor task
\* can matter: while the task is suspended or in its button code (elsewhere
\* it commutes with the statement the task runs next).
IrqPoint == pc \in Suspended \cup ButtonWindow
\* Another task runs only while the motor task is suspended.
MotorSuspended == pc \in Suspended

InitLoc == [last_op_mode |-> "NONE", applied_spin_speed |-> NO_SPEED_APPLIED,
            seq_step |-> 0, seq_total_steps |-> 0, seq_steps_per_rotation |-> 0,
            seq_steps_to_rotate_remaining |-> 0, sub_state |-> "DONE",
            current_mode |-> "NONE", desired_spin_speed |-> 0,
            old_status |-> StReady, action |-> "None", deg |-> 0,
            speed |-> 0, current_rotation_steps |-> 0, rot_i |-> 0,
            bc_todo |-> << >>, bc_ret |-> "top"]

\* line 132, 141: the driver as pulse_motor leaves it.
InitDriver == [stepms |-> PULSE_STEPMS, energized |-> FALSE]

InitUsed == [cmds |-> 0, faults |-> 0, presses |-> 0, posts |-> 0, reboots |-> 0]

\* line 68: SPIN_SPEEDS as load_settings builds it from the document; a
\* document without one of the three speeds raises KeyError there and the
\* program stops at line 84, before main() runs.
BootFails(doc) == ~(HasKey(doc, KeySlow) /\ HasKey(doc, KeyNormal) /\ HasKey(doc, KeyFast))
BootSpeeds(doc) == <<doc[KeySlow], doc[KeyNormal], doc[KeyFast]>>
\* line 384: settings.get('startup', {}).get('autospin', True)
BootAutospin(doc) == IF HasKey(doc, KeyAutospin) THEN doc[KeyAutospin] ELSE TRUE
\* line 27-32, 84, 383-386, 398: the globals that depend on the document
\* found in config.json, when the tasks have been started (pc "top") or
\* when the program has stopped on the way (pc "down").
BootState(doc) ==
    IF BootFails(doc)
    THEN [settings |-> EmptyDict, SPIN_SPEEDS |-> << >>, op_mode |-> "IDLE",
          op_params |-> EmptyDict, pc |-> "down"]
    ELSE [settings |-> doc, SPIN_SPEEDS |-> BootSpeeds(doc),
          op_mode |-> IF BootAutospin(doc) THEN "SPIN" ELSE "IDLE",
          op_params |-> IF BootAutospin(doc)
                        THEN DictPut(EmptyDict, "speed",
                                     BootSpeeds(doc)[INITIAL_SPEED_INDEX + 1])
                        ELSE EmptyDict,
          pc |-> "top"]

\* Observers.  press: the physical press in progress or last completed
\* (age: ms since it began, saturating; startIdle: no debounce window was
\* open when it began; cycle/toggle: the actions deposited by it; kind: how
\* it ended).
InitPress == [age |-> 0, startIdle |-> FALSE, cycle |-> 0, toggle |-> 0,
              kind |-> "none"]
\* run: the photo sequence started by the last start_photo_sequence applied in
\* IDLE, while nothing has interrupted it (deg: its degrees; triggers: camera
\* triggers since; steps: motor steps since the last trigger; partial: it
\* began inside a rotation in progress, which has at least one step and less
\* than a whole rotation to go, and has not triggered yet; bad: a trigger
\* came after another number of steps than one rotation; done: the loop has
\* completed it).
InitRun == [clean |-> FALSE, deg |-> 0, triggers |-> 0, steps |-> 0,
            partial |-> FALSE, bad |-> FALSE, done |-> FALSE]
\* stop: a stop applied inside the ROTATE stepping loop, while no later
\* command or button action has changed the mode (steps: motor steps since,
\* capped at 2; triggers: a shutter signal has gone to the camera since, from
\* the motor loop or from a diagnostic command; sequence: the motor loop has
\* triggered the camera since; midway: steps of the rotation were still to
\* come when the stop was applied).
InitStop == [armed |-> FALSE, steps |-> 0, triggers |-> 0, sequence |-> 0,
             midway |-> FALSE]
\* trip: "spun" after a start_spin, "armed" after the stop that follows it,
\* while no later command or button action has changed the mode (seen: the
\* loop has begun an iteration since).
InitTrip == [phase |-> "none", seen |-> FALSE]
\* slot: the pending-action slot (fresh: it holds a deposit the loop has not
\* loaded; erased: the loop's clear has overwritten such a deposit).
InitSlot == [fresh |-> FALSE, erased |-> FALSE]
\* data: the last message handled; skipped: a broadcast ended on an error
\* before it had sent to a listener that was still registered.
InitObs == [press |-> InitPress, run |-> InitRun, stop |-> InitStop,
            trip |-> InitTrip, slot |-> InitSlot, data |-> EmptyDict,
            skipped |-> FALSE]

Init ==
    /\ \E autospin \in BOOLEAN : config = DefaultSettings(autospin)
    /\ settings = BootState(config).settings
    /\ SPIN_SPEEDS = BootState(config).SPIN_SPEEDS
    /\ op_mode = BootState(config).op_mode
    /\ op_params = BootState(config).op_params
    /\ pc = BootState(config).pc
    /\ status_message = StReady
    /\ current_speed_index = INITIAL_SPEED_INDEX
    /\ trigger_mode = "WIRED"
    /\ clients = {}
    /\ lock = "free"
    /\ is_button_down = FALSE
    /\ long_press_action_taken = FALSE
    /\ button_action_pending = "None"
    /\ button_state = "IDLE"
    /\ sincePress = LONG_PRESS_MS
    /\ sinceDeadline = TickMs
    /\ loc = InitLoc
    /\ wsPc = [c \in Clients |-> "new"]
    /\ broken = {}
    /\ wsTodo = [c \in Clients |-> << >>]
    /\ driver = InitDriver
    /\ wired_shutter = 0
    /\ reboot = FALSE
    /\ pin = 0
    /\ used = InitUsed
    /\ obs = InitObs

\* ------------------------------------------------------- button interrupt
\* button_handler(pin) with pin.value() = level.
button_handler(level) ==
    IF button_state = "DEBOUNCING"
    THEN UNCHANGED buttonVars
    ELSE IF level = 1
    THEN IF ~is_button_down
         THEN /\ is_button_down' = TRUE
              /\ long_press_action_taken' = FALSE
              /\ sincePress' = 0
              /\ UNCHANGED <<button_action_pending, button_state, sinceDeadline>>
         ELSE UNCHANGED buttonVars
    ELSE IF is_button_down
         THEN /\ is_button_down' = FALSE
              /\ IF ~long_press_action_taken
                 THEN /\ button_action_pending' = "cycle_speed"
                      /\ button_state' = "DEBOUNCING"
                      /\ sinceDeadline' = -DEBOUNCE_MS
                 ELSE UNCHANGED <<button_action_pending, button_state, sinceDeadline>>
              /\ UNCHANGED <<long_press_action_taken, sincePress>>
         ELSE UNCHANGED buttonVars

\* The button is pressed: a rising edge, served by the interrupt handler.
PressEdge ==
    /\ IrqPoint
    /\ pin = 0
    /\ used.presses < MaxPresses
    /\ pin' = 1
    /\ used' = [used EXCEPT !.presses = @ + 1]
    /\ button_handler(1)
    /\ obs' = [obs EXCEPT !.press = [age |-> 0, startIdle |-> button_state = "IDLE",
                                     cycle |-> 0, toggle |-> 0, kind |-> "held"]]
    /\ UNCHANGED <<globalVars, clients, lock, pc, loc, wsVars, driver,
                   wired_shutter, settingVars>>

\* The button is released: a falling edge, served by the interrupt handler.
ReleaseEdge ==
    /\ IrqPoint
    /\ pin = 1
    /\ pin' = 0
    /\ button_handler(0)
    /\ obs' = [obs EXCEPT
                 !.press.kind = IF obs.press.age >= LONG_PRESS_MS THEN "long" ELSE "short",
                 !.press.cycle = IF button_state # "DEBOUNCING" /\ is_button_down
                                    /\ ~long_press_action_taken
                                 THEN 1 ELSE 0,
                 !.slot.fresh = \/ @
                                \/ /\ button_state # "DEBOUNCING"
                                   /\ is_button_down
                                   /\ ~long_press_action_taken]
    /\ UNCHANGED <<globalVars, clients, lock, pc, loc, wsVars, driver, used,
                   wired_shutter, settingVars>>

\* TickMs of time pass while the motor task is suspended (an await lasts at
\* least its delay, and as long as the other tasks keep the scheduler):
\* utime.ticks_ms() advances.
Tick ==
    /\ MotorSuspended
    /\ sincePress' = Min(sincePress + TickMs, LONG_PRESS_MS)
    /\ sinceDeadline' = Min(sinceDeadline + TickMs, TickMs)
    /\ obs' = [obs EXCEPT !.press.age = IF pin = 1 THEN Min(@ + TickMs, LONG_PRESS_MS) ELSE @]
    /\ \/ sincePress' # sincePress
       \/ sinceDeadline' # sinceDeadline
       \/ obs' # obs
    /\ UNCHANGED <<globalVars, clients, lock, is_button_down, long_press_action_taken,
                   button_action_pending, button_state, pc, loc, wsVars, pin, wired_shutter, settingVars, driver, used>>

\* ------------------------------------------------- motor task: button code
\* line 293-294: the debounce window is closed once its deadline has passed.
PollDebounce ==
    /\ pc = "top"
    /\ button_state' = IF button_state = "DEBOUNCING" /\ sinceDeadline > 0
                       THEN "IDLE" ELSE button_state
    /\ pc' = "poll_long"
    /\ UNCHANGED <<globalVars, clients, lock, is_button_down, long_press_action_taken,
                   button_action_pending, sincePress, sinceDeadline, loc, wsVars,
                   pin, wired_shutter, settingVars, driver, used, obs>>

\* line 295-296: is a long press due?
PollLongPress ==
    /\ pc = "poll_long"
    /\ pc' = IF is_button_down /\ ~long_press_action_taken /\ sincePress >= LONG_PRESS_MS
             THEN "fire_long" ELSE "take"
    /\ UNCHANGED <<globalVars, clients, lock, buttonVars, loc, wsVars, pin, wired_shutter, settingVars, driver, used, obs>>

\* line 297, first store: long_press_action_taken = True.  The observer
\* counts the toggle_spin for the press whose hold the loop has detected.
FireLongTaken ==
    /\ pc = "fire_long"
    /\ long_press_action_taken' = TRUE
    /\ pc' = "fire_pending"
    /\ obs' = [obs EXCEPT !.press.toggle = 1]
    /\ UNCHANGED <<globalVars, clients, lock, is_button_down, button_action_pending,
                   button_state, sincePress, sinceDeadline, loc, wsVars,
                   pin, wired_shutter, settingVars, driver, used>>

\* line 297, second store: button_action_pending = 'toggle_spin'.
FireLongPending ==
    /\ pc = "fire_pending"
    /\ button_action_pending' = "toggle_spin"
    /\ pc' = "fire_debounce"
    /\ obs' = [obs EXCEPT !.slot.fresh = TRUE]
    /\ UNCHANGED <<globalVars, clients, lock, is_button_down, long_press_action_taken,
                   button_state, sincePress, sinceDeadline, loc, wsVars,
                   pin, wired_shutter, settingVars, driver, used>>

\* line 298: the long press opens a debounce window.
FireLongDebounce ==
    /\ pc = "fire_debounce"
    /\ button_state' = "DEBOUNCING"
    /\ sinceDeadline' = -DEBOUNCE_MS
    /\ pc' = "take"
    /\ UNCHANGED <<globalVars, clients, lock, is_button_down, long_press_action_taken,
                   button_action_pending, sincePress, loc, wsVars,
                   pin, wired_shutter, settingVars, driver, used, obs>>

\* line 299-300: the test and the load of button_action_pending.
TakeRead ==
    /\ pc = "take"
    /\ IF button_action_pending # "None"
       THEN /\ loc' = [loc EXCEPT !.action = button_action_pending]
            /\ pc' = "take_clear"
       ELSE /\ pc' = "read_lock"
            /\ UNCHANGED loc
    /\ obs' = [obs EXCEPT !.slot.fresh = FALSE]
    /\ UNCHANGED <<globalVars, clients, lock, buttonVars, wsVars, pin, wired_shutter, settingVars, driver, used>>

\* line 300: the store of None into button_action_pending.
TakeClear ==
    /\ pc = "take_clear"
    /\ button_action_pending' = "None"
    /\ pc' = "apply_lock"
    /\ obs' = [obs EXCEPT !.slot.erased = @ \/ obs.slot.fresh, !.slot.fresh = FALSE]
    /\ UNCHANGED <<globalVars, clients, lock, is_button_down, long_press_action_taken,
                   button_state, sincePress, sinceDeadline, loc, wsVars, pin, wired_shutter, settingVars, driver, used>>

\* line 301: async with lock.
ApplyLock ==
    /\ pc = "apply_lock"
    /\ lock = "free"
    /\ lock' = "motor"
    /\ pc' = "apply_cs"
    /\ UNCHANGED <<globalVars, clients, buttonVars, loc, wsVars, pin, wired_shutter, settingVars, driver, used, obs>>

\* A toggle that always ends in SPIN.
ToggleModeSpin(mode) == "SPIN"

\* line 305-306: the mode that toggle_spin puts in the place of mode.
ToggleMode(mode) == IF mode = "SPIN" THEN "IDLE" ELSE "SPIN"

\* line 302-306: the button action is applied under the lock.
ApplyAction ==
    /\ pc = "apply_cs"
    /\ IF loc.action = "cycle_speed"
       THEN /\ current_speed_index' = (current_speed_index + 1) % Len(SPIN_SPEEDS)
            /\ UNCHANGED <<op_mode, op_params>>
       ELSE IF loc.action = "toggle_spin"
       THEN /\ IF op_mode = "SPIN"
               THEN /\ op_mode' = ToggleMode(op_mode)
                    /\ UNCHANGED op_params
               ELSE /\ op_mode' = ToggleMode(op_mode)
                    /\ op_params' = DictPut(op_params, "speed", SpeedAt(current_speed_index))
            /\ UNCHANGED current_speed_index
       ELSE UNCHANGED <<op_mode, op_params, current_speed_index>>
    /\ lock' = Release("motor")
    /\ pc' = "read_lock"
    /\ obs' = [obs EXCEPT !.run = InitRun,
                          !.stop = IF loc.action = "toggle_spin" THEN InitStop ELSE @,
                          !.trip = IF loc.action = "toggle_spin" THEN InitTrip ELSE @]
    /\ UNCHANGED <<status_message, trigger_mode, clients, buttonVars, loc, wsVars,
                   pin, wired_shutter, settingVars, driver, used>>

\* ------------------------------------------------ motor task: the try block
\* line 309: async with lock.
ReadLock ==
    /\ pc = "read_lock"
    /\ lock = "free"
    /\ lock' = "motor"
    /\ pc' = "read_cs"
    /\ UNCHANGED <<globalVars, clients, buttonVars, loc, wsVars, pin, wired_shutter, settingVars, driver, used, obs>>

\* line 310-311: the mode and the table speed are read under the lock.
ReadMode ==
    /\ pc = "read_cs"
    /\ loc' = [loc EXCEPT !.current_mode = op_mode,
                          !.desired_spin_speed = SpeedAt(current_speed_index)]
    /\ lock' = Release("motor")
    /\ pc' = "dispatch"
    /\ UNCHANGED <<globalVars, clients, buttonVars, wsVars, pin, wired_shutter, settingVars, driver, used, obs>>

\* A loop that resets nothing on a change of mode.
ModeChangeResetNone(l) == l

\* line 312-315: what a change of mode resets.
ModeChangeReset(l) ==
    IF l.current_mode # l.last_op_mode
    THEN [l EXCEPT !.sub_state = "DONE", !.applied_spin_speed = NO_SPEED_APPLIED]
    ELSE l

\* A change of mode that leaves the coils as they are.
ModeChangeReleaseNone(l, d) == d

\* line 312, 315: a change of mode releases the coils.
ModeChangeRelease(l, d) ==
    IF l.current_mode # l.last_op_mode THEN [d EXCEPT !.energized = FALSE] ELSE d

\* line 330, 364: stepper_motor.step(1) energizes the coils.
MotorStep(d) == [d EXCEPT !.energized = TRUE]

\* line 312-317 and the branch on current_mode, up to its first await, lock
\* or driver call.
Dispatch ==
    /\ pc = "dispatch"
    /\ LET l == [ModeChangeReset(loc) EXCEPT !.last_op_mode = loc.current_mode,
                                             !.old_status = status_message]
           d == ModeChangeRelease(loc, driver)
       IN  CASE l.current_mode = "IDLE" ->
                 \* line 320-322
                 /\ status_message' = StReady
                 /\ loc' = l
                 /\ driver' = [d EXCEPT !.energized = FALSE]
                 /\ pc' = "idle_sleep"
             [] l.current_mode = "SPIN" ->
                 \* line 324-326
                 IF l.applied_spin_speed # l.desired_spin_speed
                 THEN /\ loc' = [l EXCEPT !.applied_spin_speed = l.desired_spin_speed]
                      /\ driver' = [d EXCEPT !.stepms = l.desired_spin_speed]
                      /\ pc' = "spin_lock"
                      /\ UNCHANGED status_message
                 ELSE /\ loc' = l
                      /\ driver' = d
                      /\ pc' = "spin_step"
                      /\ UNCHANGED status_message
             [] l.current_mode = "PICTURE" ->
                 \* line 333
                 /\ status_message' = StTaking
                 /\ loc' = l
                 /\ driver' = d
                 /\ pc' = "trig_enter"
             [] l.current_mode = "SEQUENCE" /\ l.sub_state = "DONE" ->
                 \* line 337-338
                 /\ loc' = l
                 /\ driver' = d
                 /\ pc' = "seq_lock"
                 /\ UNCHANGED status_message
             [] l.current_mode = "SEQUENCE" /\ l.sub_state = "TRIGGER" ->
                 \* line 348-349
                 /\ status_message' = StProcessing(l.seq_step + 1, l.seq_total_steps)
                 /\ loc' = l
                 /\ driver' = d
                 /\ pc' = "trig_enter"
             [] l.current_mode = "SEQUENCE" /\ l.sub_state = "ROTATE" ->
                 \* line 358-361
                 /\ status_message' = StRotating(l.seq_step + 1, l.seq_total_steps)
                 /\ loc' = [l EXCEPT !.current_rotation_steps = l.seq_steps_to_rotate_remaining,
                                     !.rot_i = 0]
                 /\ driver' = d
                 /\ pc' = IF l.seq_steps_to_rotate_remaining > 0 THEN "rot_lock" ELSE "rot_after"
    /\ obs' = [obs EXCEPT !.trip.seen = @ \/ obs.trip.phase = "armed"]
    /\ UNCHANGED <<op_mode, op_params, current_speed_index, trigger_mode, clients,
                   lock, buttonVars, wsVars, pin, wired_shutter, settingVars, used>>

\* line 322: await uasyncio.sleep_ms(100) returns.
IdleWake ==
    /\ pc = "idle_sleep"
    /\ pc' = "bcast_check"
    /\ UNCHANGED <<globalVars, clients, lock, buttonVars, loc, wsVars, pin, wired_shutter, settingVars, driver, used, obs>>

\* line 327: async with lock.
SpinLock ==
    /\ pc = "spin_lock"
    /\ lock = "free"
    /\ lock' = "motor"
    /\ pc' = "spin_cs"
    /\ UNCHANGED <<globalVars, clients, buttonVars, loc, wsVars, pin, wired_shutter, settingVars, driver, used, obs>>

\* line 328-329: the applied speed is published under the lock.
SpinPublish ==
    /\ pc = "spin_cs"
    /\ op_params' = DictPut(op_params, "speed", loc.applied_spin_speed)
    /\ status_message' = StSpinning(loc.applied_spin_speed)
    /\ lock' = Release("motor")
    /\ pc' = "spin_step"
    /\ UNCHANGED <<op_mode, current_speed_index, trigger_mode, clients, buttonVars,
                   loc, wsVars, pin, wired_shutter, settingVars, driver, used, obs>>

\* The observers' count of n motor steps.
ObsSteps(o, n) ==
    [o EXCEPT !.run.steps = IF o.run.clean /\ ~o.run.partial THEN @ + n ELSE @,
              !.stop.steps = IF o.stop.armed THEN Min(@ + n, 2) ELSE @]

\* The observers' count of one camera trigger.
ObsTrigger(o) ==
    [o EXCEPT !.run.triggers = IF o.run.clean THEN @ + 1 ELSE @,
              !.run.steps = 0,
              !.run.partial = FALSE,
              !.run.bad = IF o.run.clean
                          THEN \/ @
                               \/ o.run.partial
                               \/ o.run.steps # (IF o.run.triggers = 0 THEN 0
                                                 ELSE StepsPerRotation(o.run.deg))
                          ELSE @,
              !.stop.triggers = IF o.stop.armed THEN 1 ELSE @,
              !.stop.sequence = IF o.stop.armed THEN 1 ELSE @]

\* line 330-331: stepper_motor.step(1), then await uasyncio.sleep_ms(0).
SpinStep ==
    /\ pc = "spin_step"
    /\ pc' = "spin_yield"
    /\ driver' = MotorStep(driver)
    /\ obs' = ObsSteps(obs, 1)
    /\ UNCHANGED <<globalVars, clients, lock, buttonVars, loc, wsVars, pin, wired_shutter, settingVars, used>>

\* line 331: the yield returns.
SpinResume ==
    /\ pc = "spin_yield"
    /\ pc' = "bcast_check"
    /\ UNCHANGED <<globalVars, clients, lock, buttonVars, loc, wsVars, pin, wired_shutter, settingVars, driver, used, obs>>

\* trigger_camera, line 164-168 / 170-173: up to its first sleep; in WIRED
\* mode the shutter output is switched on.
TriggerEnter ==
    /\ pc = "trig_enter"
    /\ pc' = IF trigger_mode = "WIRED" THEN "trig_pulse" ELSE "trig_settle"
    /\ wired_shutter' = IF trigger_mode = "WIRED" THEN 1 ELSE wired_shutter
    /\ obs' = ObsTrigger(obs)
    /\ UNCHANGED <<globalVars, clients, lock, buttonVars, loc, wsVars, pin, settingVars,
                   driver, used>>

\* trigger_camera, line 168-173: the 200 ms pulse is over and the shutter
\* output is switched off.
TriggerPulseDone ==
    /\ pc = "trig_pulse"
    /\ pc' = "trig_settle"
    /\ wired_shutter' = 0
    /\ UNCHANGED <<globalVars, clients, lock, buttonVars, loc, wsVars, pin, settingVars,
                   driver, used, obs>>

\* trigger_camera, line 173-174: the 50 ms settle is over; back in the caller
\* (line 335 or line 351), at its async with lock.
TriggerSettleDone ==
    /\ pc = "trig_settle"
    /\ pc' = IF loc.current_mode = "PICTURE" THEN "pic_lock" ELSE "seq_delay_lock"
    /\ UNCHANGED <<globalVars, clients, lock, buttonVars, loc, wsVars, pin, wired_shutter, settingVars, driver, used, obs>>

\* line 335: async with lock.
PictureLock ==
    /\ pc = "pic_lock"
    /\ lock = "free"
    /\ lock' = "motor"
    /\ pc' = "pic_cs"
    /\ UNCHANGED <<globalVars, clients, buttonVars, loc, wsVars, pin, wired_shutter, settingVars, driver, used, obs>>

\* A PICTURE branch that leaves the mode as it is.
PictureEndModeKept == "PICTURE"

\* line 335: the mode the PICTURE branch ends in.
PictureEndMode == "IDLE"

\* line 335: op_mode, status_message = 'IDLE', "Picture complete. Ready."
PictureDone ==
    /\ pc = "pic_cs"
    /\ op_mode' = PictureEndMode
    /\ status_message' = StPictureDone
    /\ lock' = Release("motor")
    /\ pc' = "bcast_check"
    /\ UNCHANGED <<op_params, current_speed_index, trigger_mode, clients, buttonVars,
                   loc, wsVars, pin, wired_shutter, settingVars, driver, used, obs>>

\* line 338: async with lock.
SeqLock ==
    /\ pc = "seq_lock"
    /\ lock = "free"
    /\ lock' = "motor"
    /\ pc' = "seq_cs"
    /\ UNCHANGED <<globalVars, clients, buttonVars, loc, wsVars, pin, wired_shutter, settingVars, driver, used, obs>>

\* line 339-341: the parameters of the sequence are read under the lock.  The
\* defaults settings['speeds_ms']['normal'] and
\* settings['photo_delays_ms']['medium'] are evaluated before the lookups and
\* raise KeyError when settings lacks them.
SeqReadParams ==
    /\ pc = "seq_cs"
    /\ lock' = Release("motor")
    /\ IF HasKey(settings, KeyNormal) /\ HasKey(settings, KeyMedium)
       THEN /\ loc' = [loc EXCEPT
                         !.deg = DictGet(op_params, "deg", DEFAULT_DEG),
                         !.speed = DictGet(op_params, "speed", settings[KeyNormal])]
            /\ pc' = "seq_compute"
       ELSE /\ loc' = [loc EXCEPT
                         !.deg = DictGet(op_params, "deg", DEFAULT_DEG),
                         !.speed = IF HasKey(settings, KeyNormal)
                                   THEN DictGet(op_params, "speed", settings[KeyNormal])
                                   ELSE @]
            /\ pc' = Raise(pc)
    /\ UNCHANGED <<globalVars, clients, buttonVars, wsVars, pin, wired_shutter, settingVars,
                   driver, used, obs>>

\* line 342-349: the sequence is set up and falls through to TRIGGER.
SeqCompute ==
    /\ pc = "seq_compute"
    /\ loc' = [loc EXCEPT !.seq_total_steps = TotalSteps(loc.deg),
                          !.seq_steps_per_rotation = StepsPerRotation(loc.deg),
                          !.seq_steps_to_rotate_remaining = StepsPerRotation(loc.deg),
                          !.seq_step = 0,
                          !.sub_state = "TRIGGER"]
    /\ driver' = [driver EXCEPT !.stepms = loc.speed]
    /\ status_message' = StProcessing(1, TotalSteps(loc.deg))
    /\ pc' = "trig_enter"
    /\ UNCHANGED <<op_mode, op_params, current_speed_index, trigger_mode, clients,
                   lock, buttonVars, wsVars, pin, wired_shutter, settingVars, used, obs>>

\* line 351: async with lock.
SeqDelayLock ==
    /\ pc = "seq_delay_lock"
    /\ lock = "free"
    /\ lock' = "motor"
    /\ pc' = "seq_delay_cs"
    /\ UNCHANGED <<globalVars, clients, buttonVars, loc, wsVars, pin, wired_shutter, settingVars, driver, used, obs>>

\* line 351-352: delay_ms is read under the lock (the default
\* settings['photo_delays_ms']['medium'] raises KeyError when settings lacks
\* it), then the photo delay starts.
SeqReadDelay ==
    /\ pc = "seq_delay_cs"
    /\ lock' = Release("motor")
    /\ pc' = IF HasKey(settings, KeyMedium) THEN "seq_delay" ELSE Raise(pc)
    /\ UNCHANGED <<globalVars, clients, buttonVars, loc, wsVars, pin, wired_shutter,
                   settingVars, driver, used, obs>>

\* line 352-357: the photo delay is over.
SeqAfterDelay ==
    /\ pc = "seq_delay"
    /\ IF loc.seq_step >= loc.seq_total_steps - 1
       THEN /\ status_message' = StSequenceDone
            /\ loc' = [loc EXCEPT !.sub_state = "DONE"]
            /\ pc' = "seq_done_lock"
       ELSE /\ loc' = [loc EXCEPT !.sub_state = "ROTATE"]
            /\ pc' = "bcast_check"
            /\ UNCHANGED status_message
    /\ UNCHANGED <<op_mode, op_params, current_speed_index, trigger_mode, clients,
                   lock, buttonVars, wsVars, pin, wired_shutter, settingVars, driver, used, obs>>

\* line 355: async with lock.
SeqDoneLock ==
    /\ pc = "seq_done_lock"
    /\ lock = "free"
    /\ lock' = "motor"
    /\ pc' = "seq_done_cs"
    /\ UNCHANGED <<globalVars, clients, buttonVars, loc, wsVars, pin, wired_shutter, settingVars, driver, used, obs>>

\* line 355: op_mode = 'IDLE'.
SeqComplete ==
    /\ pc = "seq_done_cs"
    /\ op_mode' = "IDLE"
    /\ lock' = Release("motor")
    /\ pc' = "bcast_check"
    /\ obs' = [obs EXCEPT !.run.done = obs.run.clean]
    /\ UNCHANGED <<op_params, status_message, current_speed_index, trigger_mode,
                   clients, buttonVars, loc, wsVars, pin, wired_shutter, settingVars, driver, used>>

\* line 362: async with lock.
RotateLock ==
    /\ pc = "rot_lock"
    /\ lock = "free"
    /\ lock' = "motor"
    /\ pc' = "rot_cs"
    /\ UNCHANGED <<globalVars, clients, buttonVars, loc, wsVars, pin, wired_shutter, settingVars, driver, used, obs>>

\* A stepping loop that does not look at the mode.
RotateGoesOnAlways == TRUE

\* line 363: the stepping loop goes on while the mode is SEQUENCE.
RotateGoesOn == op_mode = "SEQUENCE"

\* line 363: if op_mode != 'SEQUENCE': break.  The break ends the for loop
\* and with it the iterator that rot_i stands for.
RotateCheck ==
    /\ pc = "rot_cs"
    /\ lock' = Release("motor")
    /\ IF RotateGoesOn
       THEN /\ pc' = "rot_step"
            /\ UNCHANGED loc
       ELSE /\ pc' = "rot_after"
            /\ loc' = [loc EXCEPT !.rot_i = 0]
    /\ UNCHANGED <<globalVars, clients, buttonVars, wsVars, pin, wired_shutter, settingVars, driver, used, obs>>

\* line 364-365: stepper_motor.step(1), then await uasyncio.sleep_ms(0).
RotateStep ==
    /\ pc = "rot_step"
    /\ pc' = "rot_yield"
    /\ driver' = MotorStep(driver)
    /\ obs' = ObsSteps(obs, 1)
    /\ UNCHANGED <<globalVars, clients, lock, buttonVars, loc, wsVars, pin, wired_shutter, settingVars, used>>

\* line 361, 365: the yield returns and the for loop takes its next index,
\* or ends when the range is used up.
RotateResume ==
    /\ pc = "rot_yield"
    /\ IF loc.rot_i + 1 < loc.current_rotation_steps
       THEN /\ loc' = [loc EXCEPT !.rot_i = @ + 1]
            /\ pc' = "rot_lock"
       ELSE /\ loc' = [loc EXCEPT !.rot_i = 0]
            /\ pc' = "rot_after"
    /\ UNCHANGED <<globalVars, clients, lock, buttonVars, wsVars, pin, wired_shutter, settingVars, driver, used, obs>>

\* line 366-369: after the stepping loop; op_mode is read without the lock.
RotateAfter ==
    /\ pc = "rot_after"
    /\ loc' = IF op_mode = "SEQUENCE"
              THEN [loc EXCEPT !.seq_step = @ + 1,
                               !.seq_steps_to_rotate_remaining = loc.seq_steps_per_rotation,
                               !.sub_state = "TRIGGER"]
              ELSE loc
    /\ pc' = "bcast_check"
    /\ UNCHANGED <<globalVars, clients, lock, buttonVars, wsVars, pin, wired_shutter, settingVars, driver, used, obs>>

\* ------------------------------------------------------------- broadcasts
\* list(clients): the members of the set in some order.
Orders(S) ==
    {q \in UNION {[1..n -> S] : n \in {Cardinality(S)}} :
        \A i, j \in DOMAIN q : i # j => q[i] # q[j]}

\* line 371: a changed status text is broadcast.
BroadcastCheck ==
    /\ pc = "bcast_check"
    /\ IF status_message # loc.old_status
       THEN /\ loc' = [loc EXCEPT !.bc_ret = "hb_check"]
            /\ pc' = "bc_lock"
       ELSE /\ pc' = "hb_check"
            /\ UNCHANGED loc
    /\ UNCHANGED <<globalVars, clients, lock, buttonVars, wsVars, pin, wired_shutter, settingVars, driver, used, obs>>

\* line 372-373: the heartbeat; due: more than 5000 ms since the last broadcast.
HeartbeatCheck ==
    /\ pc = "hb_check"
    /\ \E due \in BOOLEAN :
        IF loc.current_mode = "IDLE" /\ due
        THEN /\ loc' = [loc EXCEPT !.bc_ret = "top"]
             /\ pc' = "bc_lock"
        ELSE /\ pc' = "top"
             /\ UNCHANGED loc
    /\ UNCHANGED <<globalVars, clients, lock, buttonVars, wsVars, pin, wired_shutter, settingVars, driver, used, obs>>

\* broadcast_status, line 146: async with lock.
BroadcastLock ==
    /\ pc = "bc_lock"
    /\ lock = "free"
    /\ lock' = "motor"
    /\ pc' = "bc_cs"
    /\ UNCHANGED <<globalVars, clients, buttonVars, loc, wsVars, pin, wired_shutter, settingVars, driver, used, obs>>

\* broadcast_status, line 147-157: the payload is built under the lock, the
\* lock is left, and the first send of the copied list starts.
BroadcastSnapshot ==
    /\ pc = "bc_cs"
    /\ lock' = Release("motor")
    /\ \E order \in Orders(clients) :
        /\ loc' = [loc EXCEPT !.bc_todo = order]
        /\ pc' = IF order = << >> THEN loc.bc_ret ELSE "bc_send"
    /\ UNCHANGED <<globalVars, clients, buttonVars, wsVars, pin, wired_shutter, settingVars, driver, used, obs>>

\* The observer of a broadcast that ends on a KeyError: were listeners that
\* are still registered left without the payload?
ObsAbort(o, todo) ==
    [o EXCEPT !.skipped = @ \/ (\E c \in clients : \E i \in 2..Len(todo) : todo[i] = c)]

\* broadcast_status, line 156-159, called by the motor task: the send to the
\* head of the list returns or raises; on an exception the listener is
\* removed, and a listener that is no longer in the set raises KeyError.
BroadcastSendDone ==
    /\ pc = "bc_send"
    /\ LET head == Head(loc.bc_todo)
           rest == Tail(loc.bc_todo)
       IN  \E ok \in (IF head \in broken THEN BOOLEAN ELSE {TRUE}) :
            IF ok \/ head \in clients
            THEN /\ clients' = IF ok THEN clients ELSE clients \ {head}
                 /\ loc' = [loc EXCEPT !.bc_todo = rest]
                 /\ pc' = IF rest = << >> THEN loc.bc_ret ELSE "bc_send"
                 /\ UNCHANGED obs
            ELSE /\ loc' = [loc EXCEPT !.bc_todo = << >>]
                 /\ pc' = Raise(pc)
                 /\ obs' = ObsAbort(obs, loc.bc_todo)
                 /\ UNCHANGED clients
    /\ UNCHANGED <<globalVars, lock, buttonVars, wsVars, pin, wired_shutter, settingVars, driver, used>>

\* ----------------------------------------------------- the except clause
\* line 376: async with lock.
ExceptLock ==
    /\ pc = "exc_lock"
    /\ lock = "free"
    /\ lock' = "motor"
    /\ pc' = "exc_cs"
    /\ UNCHANGED <<globalVars, clients, buttonVars, loc, wsVars, pin, wired_shutter, settingVars, driver, used, obs>>

\* line 376: status_message, op_mode = f"Error: {e}", 'IDLE'; the loop goes on.
ExceptHandle ==
    /\ pc = "exc_cs"
    /\ status_message' = StError
    /\ op_mode' = "IDLE"
    /\ lock' = Release("motor")
    /\ pc' = "top"
    /\ obs' = [obs EXCEPT !.run = InitRun]
    /\ UNCHANGED <<op_params, current_speed_index, trigger_mode, clients, buttonVars,
                   loc, wsVars, pin, wired_shutter, settingVars, driver, used>>

\* line 343-344 on degrees that raise: seq_total_steps when the exception
\* leaves the set-up.  Degrees that cannot be compared with 0 (a string)
\* raise at line 343, which assigns nothing; degrees without a whole number
\* of steps raise at line 344, after line 343 has assigned 4 (NaN, minus
\* infinity, an integer below the float range) or 360 // deg = 0 (infinity,
\* an integer beyond the float range).
SetUpFaultTotals(l) == {l.seq_total_steps, DEFAULT_TOTAL_STEPS, 0}

\* A driver call or the sequence set-up raises: stepper_motor.step (line 330,
\* 364), trigger_camera (line 334, 350), or line 343-344 on degrees that are
\* not a finite number.  Line 342 has written the step interval before line
\* 343 raises; an exception in the stepping loop ends the loop and its
\* iterator.
FaultPoints == {"spin_step", "rot_step", "trig_enter", "seq_compute"}
DriverFault ==
    /\ pc \in FaultPoints
    /\ used.faults < MaxFaults
    /\ used' = [used EXCEPT !.faults = @ + 1]
    /\ driver' = IF pc = "seq_compute" THEN [driver EXCEPT !.stepms = loc.speed]
                  ELSE driver
    /\ \E total \in (IF pc = "seq_compute" THEN SetUpFaultTotals(loc)
                      ELSE {loc.seq_total_steps}) :
            loc' = [loc EXCEPT !.seq_total_steps = total,
                               !.rot_i = IF pc = "rot_step" THEN 0 ELSE @]
    /\ pc' = Raise(pc)
    /\ UNCHANGED <<globalVars, clients, lock, buttonVars, wsVars, pin, wired_shutter,
                   settingVars, obs>>

\* ------------------------------------------------------ command handler
Msg(command) == DictPut(EmptyDict, "command", command)
MsgStartSpin(speed) == DictPut(Msg("start_spin"), "speed", speed)
MsgSetSpeed(speed) == DictPut(Msg("set_speed"), "speed", speed)
MsgSequence(deg) == DictPut(Msg("start_photo_sequence"), "deg", deg)
MsgTriggerMode(mode) == DictPut(Msg("set_trigger_mode"), "mode", mode)
MsgWiredShutter(state) == DictPut(Msg("debug_wired_shutter"), "state", state)

\* A set_speed that takes effect in every mode.
SetSpeedAppliesAlways == TRUE

\* line 190-195: set_speed takes effect only in SPIN.
SetSpeedApplies == op_mode = "SPIN"

\* line 204-205: the mode a stop installs.
StopMode == "IDLE"

\* line 187, 193, 199-200: data.get(key, settings[...][...]) evaluates its
\* default first, so the command raises KeyError when settings lacks the
\* entry, whether or not the message carries the field.
CommandRaises(data) ==
    LET command == DictGet(data, "command", "None")
    IN  \/ /\ command = "start_spin"
           /\ ~HasKey(settings, KeyNormal)
        \/ /\ command = "set_speed"
           /\ SetSpeedApplies
           /\ ~HasKey(settings, KeyNormal)
        \/ /\ command = "start_photo_sequence"
           /\ ~(HasKey(settings, KeyNormal) /\ HasKey(settings, KeyMedium))

\* handle_command(data), line 177-212, for a command that does not raise.
handle_command(data) ==
    LET command == DictGet(data, "command", "None")
        speed == IF HasKey(data, "speed") THEN data["speed"] ELSE settings[KeyNormal]
        delay == IF HasKey(data, "delay") THEN data["delay"] ELSE settings[KeyMedium]
    IN  CASE command = "set_trigger_mode" ->
              /\ trigger_mode' = IF DictGet(data, "mode", "None") \in {"WIRED", "IR"}
                                 THEN DictGet(data, "mode", "None") ELSE trigger_mode
              /\ UNCHANGED <<op_mode, op_params, current_speed_index, wired_shutter>>
          [] command = "start_spin" ->
              /\ current_speed_index' = IF InSpeeds(speed) THEN SpeedIndex(speed)
                                        ELSE current_speed_index
              /\ op_mode' = "SPIN"
              /\ op_params' = DictPut(EmptyDict, "speed", speed)
              /\ UNCHANGED <<trigger_mode, wired_shutter>>
          [] command = "set_speed" ->
              IF SetSpeedApplies
              THEN /\ op_params' = DictPut(op_params, "speed", speed)
                   /\ current_speed_index' = IF InSpeeds(speed) THEN SpeedIndex(speed)
                                             ELSE current_speed_index
                   /\ UNCHANGED <<op_mode, trigger_mode, wired_shutter>>
              ELSE UNCHANGED <<op_mode, op_params, current_speed_index, trigger_mode,
                               wired_shutter>>
          [] command = "start_photo_sequence" ->
              /\ op_mode' = "SEQUENCE"
              /\ op_params' = DictPut(DictPut(DictPut(EmptyDict,
                                  "deg", DictGet(data, "deg", DEFAULT_DEG)),
                                  "speed", speed),
                                  "delay", delay)
              /\ UNCHANGED <<current_speed_index, trigger_mode, wired_shutter>>
          [] command = "take_picture" ->
              /\ op_mode' = "PICTURE"
              /\ UNCHANGED <<op_params, current_speed_index, trigger_mode, wired_shutter>>
          [] command = "stop" ->
              /\ op_mode' = StopMode
              /\ UNCHANGED <<op_params, current_speed_index, trigger_mode, wired_shutter>>
          [] command = "debug_ir_trigger" ->
              \* line 208: the shutter signal is sent over infrared
              UNCHANGED <<op_mode, op_params, current_speed_index, trigger_mode,
                          wired_shutter>>
          [] command = "debug_wired_shutter" ->
              \* line 210-212: the shutter output is set to the given state
              /\ wired_shutter' = IF DictGet(data, "state", FALSE) THEN 1 ELSE 0
              /\ UNCHANGED <<op_mode, op_params, current_speed_index, trigger_mode>>
          [] OTHER ->
              UNCHANGED <<op_mode, op_params, current_speed_index, trigger_mode,
                          wired_shutter>>

\* A command that sends a shutter signal to the camera without the motor
\* loop: debug_ir_trigger, debug_wired_shutter with a true state.
SendsShutterSignal(data) ==
    \/ DictGet(data, "command", "None") = "debug_ir_trigger"
    \/ /\ DictGet(data, "command", "None") = "debug_wired_shutter"
       /\ DictGet(data, "state", FALSE)

\* What the observers note of a command.
ObsCommand(o, data) ==
    LET command == DictGet(data, "command", "None")
        changesMode == command \in {"start_spin", "start_photo_sequence", "take_picture"}
    IN  [o EXCEPT
          !.data = data,
          !.run = IF command = "start_photo_sequence" /\ op_mode = "IDLE"
                  THEN [InitRun EXCEPT
                          !.clean = TRUE,
                          !.deg = DictGet(data, "deg", DEFAULT_DEG),
                          !.partial = /\ pc = "rot_yield"
                                      /\ loc.rot_i + 1 < loc.current_rotation_steps]
                  ELSE InitRun,
          !.stop = IF command = "stop" /\ pc = "rot_yield"
                   THEN [InitStop EXCEPT
                           !.armed = TRUE,
                           !.midway = loc.rot_i + 1 < loc.current_rotation_steps]
                   ELSE IF changesMode THEN InitStop
                   ELSE IF SendsShutterSignal(data) /\ @.armed
                        THEN [@ EXCEPT !.triggers = 1]
                   ELSE @,
          !.trip = IF command = "start_spin" THEN [InitTrip EXCEPT !.phase = "spun"]
                   ELSE IF command = "stop" /\ o.trip.phase = "spun"
                        THEN [InitTrip EXCEPT !.phase = "armed"]
                   ELSE IF command = "stop" /\ o.trip.phase = "armed" THEN @
                   ELSE IF command \in {"set_speed", "set_trigger_mode", "debug_ir_trigger",
                                        "debug_wired_shutter"}
                           /\ o.trip.phase = "armed" THEN @
                   ELSE InitTrip]

\* ------------------------------------------------------ websocket handler
\* A websocket handler runs while the motor task is suspended; the lock is
\* free whenever it asks for it.
WsRuns == MotorSuspended /\ lock = "free"

\* broadcast_status called by the handler of c: line 146-157, up to the first
\* send; with no listener it returns and the handler waits in ws.receive().
WsBroadcast(c) ==
    /\ lock' = Release(c)
    /\ \E order \in Orders(clients') :
        /\ wsTodo' = [wsTodo EXCEPT ![c] = order]
        /\ wsPc' = [wsPc EXCEPT ![c] = IF order = << >> THEN "recv" ELSE "sending"]

\* websocket_handler, line 251-253: a listener connects.
Connect(c) ==
    /\ WsRuns
    /\ wsPc[c] = "new"
    /\ clients' = clients \cup {c}
    /\ WsBroadcast(c)
    /\ UNCHANGED <<globalVars, buttonVars, pc, loc, broken, pin, wired_shutter, settingVars,
                   driver, used, obs>>

\* websocket_handler, line 255-259: a message arrives, the command is handled
\* and the status is broadcast.  A KeyError of handle_command leaves the
\* handler through line 263-267: its listener is removed and nothing is
\* broadcast.
Receive(c, data) ==
    /\ WsRuns
    /\ wsPc[c] = "recv"
    /\ c \notin broken
    /\ used.cmds < MaxCmds
    /\ used' = [used EXCEPT !.cmds = @ + 1]
    /\ IF CommandRaises(data)
       THEN /\ clients' = clients \ {c}
            /\ wsPc' = [wsPc EXCEPT ![c] = "closed"]
            /\ lock' = Release(c)
            /\ obs' = [obs EXCEPT !.data = EmptyDict]
            /\ UNCHANGED <<op_mode, op_params, current_speed_index, trigger_mode,
                           wired_shutter, wsTodo>>
       ELSE /\ handle_command(data)
            /\ obs' = ObsCommand(obs, data)
            /\ UNCHANGED clients
            /\ WsBroadcast(c)
    /\ UNCHANGED <<status_message, buttonVars, pc, loc, broken, pin, settingVars, driver>>

\* broadcast_status, line 156-159, called by the handler of c; a KeyError
\* leaves broadcast_status and the handler (line 263-267).
WsSendDone(c) ==
    /\ WsRuns
    /\ wsPc[c] = "sending"
    /\ LET head == Head(wsTodo[c])
           rest == Tail(wsTodo[c])
       IN  \E ok \in (IF head \in broken THEN BOOLEAN ELSE {TRUE}) :
            IF ok \/ head \in clients
            THEN /\ clients' = IF ok THEN clients ELSE clients \ {head}
                 /\ wsTodo' = [wsTodo EXCEPT ![c] = rest]
                 /\ wsPc' = [wsPc EXCEPT ![c] = IF rest = << >> THEN "recv" ELSE "sending"]
                 /\ obs' = [obs EXCEPT !.data = EmptyDict]
            ELSE /\ clients' = clients \ {c}
                 /\ wsTodo' = [wsTodo EXCEPT ![c] = << >>]
                 /\ wsPc' = [wsPc EXCEPT ![c] = "closed"]
                 /\ obs' = ObsAbort(obs, wsTodo[c])
    /\ UNCHANGED <<globalVars, lock, buttonVars, pc, loc, broken, pin, wired_shutter,
                   settingVars, driver, used>>

\* The peer of c goes away.
Break(c) ==
    /\ wsPc[c] \in {"sending", "recv"}
    /\ c \notin broken
    /\ broken' = broken \cup {c}
    /\ UNCHANGED <<globalVars, clients, lock, buttonVars, pc, loc, wsPc, wsTodo,
                   pin, wired_shutter, settingVars, driver, used, obs>>

\* websocket_handler, line 255, 263-267: ws.receive() raises and the handler
\* removes its listener (clients.remove raises KeyError when it is gone).
Disconnect(c) ==
    /\ WsRuns
    /\ wsPc[c] = "recv"
    /\ c \in broken
    /\ clients' = clients \ {c}
    /\ wsPc' = [wsPc EXCEPT ![c] = "closed"]
    /\ UNCHANGED <<globalVars, lock, buttonVars, pc, loc, wsTodo, broken, pin,
                   wired_shutter, settingVars, driver, used, obs>>

\* ------------------------------------------------------- settings, reboot
\* save_settings, line 72-81, as api_settings sees it: "saved" when the
\* document has been written, "unopened" when config.json could not be opened
\* and keeps its content, "truncated" when open(CONFIG_FILE, 'w') has emptied
\* the file and ujson.dump failed before the document was complete.
SaveOutcomes == {"saved", "unopened", "truncated"}

\* line 45-66: the document load_settings will return at the next boot from
\* a config.json that is no valid JSON: the defaults, with autospin on.
UnreadableConfig == DefaultSettings(TRUE)

\* api_settings, line 223-235: a settings document is posted.  When
\* save_settings has written it to config.json it replaces the global
\* settings (SPIN_SPEEDS keeps the speeds of the last boot); when the save
\* fails settings stays, and config.json is as the failed write left it.
\* config is the document the next boot loads.
ApiSettings(doc) ==
    /\ MotorSuspended
    /\ used.posts < MaxPosts
    /\ used' = [used EXCEPT !.posts = @ + 1]
    /\ \E outcome \in SaveOutcomes :
        /\ settings' = IF outcome = "saved" THEN doc ELSE settings
        /\ config' = CASE outcome = "saved" -> doc
                        [] outcome = "unopened" -> config
                        [] outcome = "truncated" -> UnreadableConfig
    /\ UNCHANGED <<globalVars, clients, lock, buttonVars, pc, loc, wsVars, driver,
                   wired_shutter, SPIN_SPEEDS, reboot, pin, obs>>

\* api_reboot, line 240-242: a reboot is requested; its task sleeps 1000 ms.
ApiReboot ==
    /\ MotorSuspended
    /\ used.reboots < MaxReboots
    /\ used' = [used EXCEPT !.reboots = @ + 1]
    /\ reboot' = TRUE
    /\ UNCHANGED <<globalVars, clients, lock, buttonVars, pc, loc, wsVars, driver,
                   wired_shutter, settings, SPIN_SPEEDS, config, pin, obs>>

\* api_reboot, line 243: reset().  The device starts again from config.json:
\* every task and connection is gone and the globals are those of a boot.
Reset ==
    /\ MotorSuspended
    /\ reboot
    /\ reboot' = FALSE
    /\ settings' = BootState(config).settings
    /\ SPIN_SPEEDS' = BootState(config).SPIN_SPEEDS
    /\ op_mode' = BootState(config).op_mode
    /\ op_params' = BootState(config).op_params
    /\ pc' = BootState(config).pc
    /\ status_message' = StReady
    /\ current_speed_index' = INITIAL_SPEED_INDEX
    /\ trigger_mode' = "WIRED"
    /\ clients' = {}
    /\ lock' = "free"
    /\ is_button_down' = FALSE
    /\ long_press_action_taken' = FALSE
    /\ button_action_pending' = "None"
    /\ button_state' = "IDLE"
    /\ sincePress' = LONG_PRESS_MS
    /\ sinceDeadline' = TickMs
    /\ loc' = InitLoc
    /\ wsPc' = [c \in Clients |-> "new"]
    /\ broken' = {}
    /\ wsTodo' = [c \in Clients |-> << >>]
    /\ driver' = InitDriver
    /\ wired_shutter' = 0
    /\ obs' = InitObs
    /\ UNCHANGED <<config, pin, used>>

\* ------------------------------------------------------- specifications
\* The motor task's button code, line 293-306.
MotorButton ==
    \/ PollDebounce \/ PollLongPress
    \/ FireLongTaken \/ FireLongPending \/ FireLongDebounce
    \/ TakeRead \/ TakeClear \/ ApplyLock \/ ApplyAction

\* The motor task in IDLE and SPIN, with its broadcasts.
MotorBase ==
    \/ ReadLock \/ ReadMode \/ Dispatch \/ IdleWake
    \/ SpinLock \/ SpinPublish \/ SpinStep \/ SpinResume
    \/ BroadcastCheck \/ HeartbeatCheck \/ BroadcastLock \/ BroadcastSnapshot

\* The motor task in PICTURE and in SEQUENCE outside the ROTATE sub-state.
MotorPhoto ==
    \/ TriggerEnter \/ TriggerPulseDone \/ TriggerSettleDone
    \/ PictureLock \/ PictureDone
    \/ SeqLock \/ SeqReadParams \/ SeqCompute \/ SeqDelayLock \/ SeqReadDelay
    \/ SeqAfterDelay \/ SeqDoneLock \/ SeqComplete

\* The motor task in the ROTATE sub-state.
MotorRotate ==
    \/ RotateLock \/ RotateCheck \/ RotateStep \/ RotateResume \/ RotateAfter

\* The settings and reboot requests.
PostedSettings ==
    SettingsDoc(SLOW_SPEED, PostedNormal, FAST_SPEED, PostedMedium, TRUE)
Requests ==
    \/ ApiSettings(PostedSettings) \/ ApiSettings(EmptyDict)
    \/ ApiReboot \/ Reset

MotorExcept == ExceptLock \/ ExceptHandle

Messages ==
    {Msg("stop"), Msg("take_picture"), MsgStartSpin(1), MsgTriggerMode("IR")}
    \cup {MsgSetSpeed(s) : s \in SpeedInputs}
    \cup {MsgSequence(d) : d \in DegInputs}

\* One remote listener sending commands, among them photo sequences without
\* motor steps; driver faults; no button.
Next ==
    \/ PollDebounce \/ PollLongPress \/ TakeRead
    \/ MotorBase \/ MotorPhoto \/ RotateAfter \/ MotorExcept
    \/ BroadcastSendDone
    \/ DriverFault
    \/ Connect(Client1)
    \/ \E data \in Messages : Receive(Client1, data)
    \/ WsSendDone(Client1)
Spec == Init /\ [][Next]_vars

\* The motor task is scheduled again after each of its awaits: a sleep ends,
\* a send returns or raises, and the lock is free whenever the task asks
\* for it.
MotorTask ==
    \/ PollDebounce \/ PollLongPress \/ TakeRead
    \/ MotorBase \/ MotorPhoto \/ RotateAfter \/ MotorExcept
    \/ BroadcastSendDone
SpecLive == Spec /\ WF_vars(MotorTask)

\* The button, the clock and the motor task in IDLE and SPIN; no listener.
NextButton ==
    \/ PressEdge \/ ReleaseEdge \/ Tick
    \/ MotorButton \/ MotorBase
SpecButton == Init /\ [][NextButton]_vars

\* Two listeners that connect, send stop and start_spin, and go away.
NextListeners ==
    \/ PollDebounce \/ PollLongPress \/ TakeRead
    \/ MotorBase \/ MotorExcept
    \/ BroadcastSendDone
    \/ \E c \in Clients :
        \/ Connect(c)
        \/ \E data \in {Msg("stop"), Msg("start_spin")} : Receive(c, data)
        \/ WsSendDone(c)
        \/ Break(c)
        \/ Disconnect(c)
SpecListeners == Init /\ [][NextListeners]_vars

\* A boot from a config.json with autospin off: the device starts in IDLE.
InitManual == Init /\ ~BootAutospin(config)

\* The button together with one listener that sends take_picture and a
\* photo sequence of one step, on a device that boots in IDLE (SPIN is
\* entered by the button).
NextButtonRemote ==
    \/ PressEdge \/ ReleaseEdge \/ Tick
    \/ MotorButton \/ MotorBase
    \/ TriggerEnter \/ TriggerPulseDone \/ TriggerSettleDone
    \/ PictureLock \/ PictureDone
    \/ SeqLock \/ SeqReadParams \/ SeqCompute \/ SeqDelayLock \/ SeqReadDelay
    \/ SeqAfterDelay \/ SeqDoneLock \/ SeqComplete
    \/ BroadcastSendDone
    \/ Connect(Client1)
    \/ \E data \in {Msg("take_picture"), MsgSequence(FULL_TURN)} : Receive(Client1, data)
    \/ WsSendDone(Client1)
SpecButtonRemote == InitManual /\ [][NextButtonRemote]_vars

\* One listener that starts photo sequences of three steps and of one step,
\* stops them and fires the camera by a diagnostic command; driver faults.
\* Every iteration of the ROTATE stepping loop is a suspension at which the
\* listener can act.
NextRotate ==
    \/ PollDebounce \/ PollLongPress \/ TakeRead
    \/ MotorBase
    \/ TriggerEnter \/ TriggerPulseDone \/ TriggerSettleDone
    \/ SeqLock \/ SeqReadParams \/ SeqCompute \/ SeqDelayLock \/ SeqReadDelay
    \/ SeqAfterDelay \/ SeqDoneLock \/ SeqComplete
    \/ MotorRotate \/ MotorExcept
    \/ BroadcastSendDone
    \/ DriverFault
    \/ Connect(Client1)
    \/ \E data \in {Msg("stop"), MsgSequence(RotateDeg), MsgSequence(FULL_TURN),
                     Msg("debug_ir_trigger")} :
            Receive(Client1, data)
    \/ WsSendDone(Client1)
SpecRotate == Init /\ [][NextRotate]_vars

\* A device that spins from the boot when autospin is set, and one listener
\* that starts photo sequences of one step with the speed and delay left
\* to the settings, and whose peer can go away while the motor task is
\* broadcasting to it; settings and reboot requests; driver faults.
NextSettings ==
    \/ PollDebounce \/ PollLongPress \/ TakeRead
    \/ MotorBase \/ MotorExcept
    \/ TriggerEnter \/ TriggerPulseDone \/ TriggerSettleDone
    \/ SeqLock \/ SeqReadParams \/ SeqCompute \/ SeqDelayLock \/ SeqReadDelay
    \/ SeqAfterDelay \/ SeqDoneLock \/ SeqComplete
    \/ BroadcastSendDone
    \/ DriverFault
    \/ Requests
    \/ Connect(Client1)
    \/ Receive(Client1, MsgSequence(FULL_TURN))
    \/ WsSendDone(Client1)
    \/ Break(Client1) \/ Disconnect(Client1)
SpecSettings == Init /\ [][NextSettings]_vars

\* One listener that starts photo sequences of any integer degrees and
\* drives the wired shutter output by the diagnostic command.
NextDegrees ==
    \/ PollDebounce \/ PollLongPress \/ TakeRead
    \/ MotorBase
    \/ TriggerEnter \/ TriggerPulseDone \/ TriggerSettleDone
    \/ SeqLock \/ SeqReadParams \/ SeqCompute \/ SeqDelayLock \/ SeqReadDelay
    \/ SeqAfterDelay \/ SeqDoneLock \/ SeqComplete
    \/ RotateAfter
    \/ BroadcastSendDone
    \/ Connect(Client1)
    \/ \E d \in WideDegInputs : Receive(Client1, MsgSequence(d))
    \/ \E state \in BOOLEAN : Receive(Client1, MsgWiredShutter(state))
    \/ WsSendDone(Client1)
SpecDegrees == Init /\ [][NextDegrees]_vars

\* ------------------------------------------------------------ properties
\* C1.  An error raised in an iteration of the motor loop never ends the
\* task: it reaches the except clause, which sets the status text to the
\* error text and the mode to IDLE, and the loop starts its next iteration.
\* The errors are those of a motor step, a camera trigger, the sequence
\* set-up (a driver fault, or a default missing from the posted settings)
\* and a status broadcast (the send to a listener fails after the
\* listener's own handler has removed it, and line 159 raises KeyError).
C1_ErrorCaught ==
    /\ [](pc # "crashed")
    /\ [][(pc = "exc_cs" /\ pc' # pc) =>
            /\ status_message' = StError
            /\ op_mode' = "IDLE"
            /\ pc' = "top"]_vars
    /\ [][(pc \in FaultPoints /\ used.faults' # used.faults) => pc' = "exc_lock"]_vars
    /\ [][(pc \in {"seq_cs", "seq_delay_cs"} /\ pc' # pc /\ ~HasKey(settings, KeyMedium)) =>
            (pc' = "exc_lock" /\ lock' = "free")]_vars
    /\ [][(pc = "bc_send" /\ reboot' = reboot /\ pc' \notin {"bc_send", loc.bc_ret}) =>
            (Head(loc.bc_todo) \in broken \ clients /\ pc' = "exc_lock")]_vars
\* The broadcast's error has been caught: no driver fault has happened and
\* no settings have been posted, so the error text is that of line 159.
C1_Witness ==
    /\ pc = "top"
    /\ status_message = StError
    /\ op_mode = "IDLE"
    /\ used.faults = 0
    /\ used.posts = 0
    /\ Client1 \in broken \ clients

\* C2.  A photo sequence started by start_photo_sequence(deg) in IDLE and
\* not interrupted fires the camera 360 \div deg times, with one rotation of
\* StepsPerRotation(deg) steps before each trigger but the first and no step
\* after the last, and ends in IDLE.
C2_SequenceRun ==
    obs.run.clean =>
        /\ obs.run.triggers <= FULL_TURN \div obs.run.deg
        /\ ~obs.run.bad
        /\ obs.run.done =>
            /\ obs.run.triggers = FULL_TURN \div obs.run.deg
            /\ obs.run.steps = 0
            /\ op_mode = "IDLE"

\* C3.  After a stop applied while the motor task is inside the ROTATE
\* stepping loop, and until a later command or button action changes the
\* mode, the mode is IDLE, the motor takes at most one more step and the
\* sequence triggers the camera no more (a diagnostic command still can).
C3_StopHaltsRotation ==
    obs.stop.armed =>
        /\ op_mode = "IDLE"
        /\ obs.stop.steps <= 1
        /\ obs.stop.sequence = 0
C3_Witness ==
    /\ obs.stop.armed
    /\ obs.stop.midway
    /\ obs.stop.triggers = 1
    /\ pc = "idle_sleep"

\* C6.  After start_spin followed by stop, and until a later command or
\* button action changes the mode, the mode is IDLE, and once the loop has
\* begun an iteration the sequence sub-state is DONE.
C6_SpinStopRoundTrip ==
    obs.trip.phase = "armed" =>
        /\ op_mode = "IDLE"
        /\ obs.trip.seen => loc.sub_state = "DONE"
C6_Witness ==
    /\ obs.trip.phase = "armed"
    /\ obs.trip.seen
    /\ pc = "idle_sleep"
    /\ loc.seq_total_steps > 0

\* C7.  set_speed(s) applied in SPIN sets params.speed to s, moves
\* current_speed_index to the table position of s when s is in the table,
\* and leaves the mode; applied in another mode it changes neither the
\* mode, the parameters, the index nor the trigger mode.
C7_SetSpeed ==
    [][\A s \in SpeedInputs :
        (obs.data = EmptyDict /\ obs.data' = MsgSetSpeed(s)) =>
            IF op_mode = "SPIN"
            THEN /\ op_params'["speed"] = s
                 /\ InSpeeds(s) => SPIN_SPEEDS[current_speed_index' + 1] = s
                 /\ op_mode' = "SPIN"
            ELSE UNCHANGED <<op_mode, op_params, current_speed_index, trigger_mode>>]_vars
C7_Witness ==
    /\ obs.data = MsgSetSpeed(1)
    /\ op_mode = "SPIN"
    /\ op_params["speed"] = 1
    /\ current_speed_index = 2

\* C8.  The motor task reads and writes op_mode and op_params only while it
\* holds the lock.  OpStateAccess: the positions whose statements read or
\* write them.
OpStateAccess == {"apply_cs", "read_cs", "spin_cs", "pic_cs", "seq_cs",
                  "seq_delay_cs", "seq_done_cs", "rot_cs", "rot_after",
                  "bc_cs", "exc_cs"}
C8_LockedAccess == pc \in OpStateAccess => lock = "motor"

\* C9.  No task is suspended while it holds the lock.
C9_NoSuspensionUnderLock ==
    /\ pc \in Suspended => lock # "motor"
    /\ \A c \in Clients : wsPc[c] \in {"sending", "recv"} => lock # c
C9_Witness ==
    /\ pc = "trig_pulse"
    /\ lock = "free"
    /\ wsPc[Client1] = "sending"

\* C4.  A press that begins with no debounce window open and is released
\* less than 500 ms later deposits exactly one cycle_speed and no
\* toggle_spin.
C4_ShortPress ==
    (obs.press.kind = "short" /\ obs.press.startIdle) =>
        (obs.press.cycle = 1 /\ obs.press.toggle = 0)

\* C5.  A press that begins with no debounce window open and is held for at
\* least 500 ms deposits exactly one toggle_spin and no cycle_speed.
C5_LongPress ==
    (obs.press.kind = "long" /\ obs.press.startIdle /\ pc # "fire_long") =>
        (obs.press.toggle = 1 /\ obs.press.cycle = 0)

\* C10.  A broadcast sends its payload to every listener that stays
\* registered, whatever happens to the others.
C10_BroadcastReachesAll == ~obs.skipped

\* C11.  A photo sequence started in IDLE after the mode has left SEQUENCE
\* starts from entry: whenever the loop is about to trigger the camera, to
\* step the motor or to complete the run, total_steps and
\* steps_per_rotation are the ones of that run's degrees, and the run's
\* first action is a camera trigger.
C11_FreshSequence ==
    (obs.run.clean /\ ~obs.run.done /\ pc \in {"trig_enter", "rot_step", "seq_done_cs"}) =>
        /\ loc.seq_total_steps = TotalSteps(obs.run.deg)
        /\ loc.seq_steps_per_rotation = StepsPerRotation(obs.run.deg)
        /\ obs.run.triggers > 0 \/ pc = "trig_enter"

\* C12.  In an iteration whose mode read under the lock differs from the
\* mode of the previous iteration, the loop releases the coils and resets
\* sub_state to DONE and the applied-speed cache (so SPIN re-applies the
\* interval and SEQUENCE starts with its set-up); a motor step, a camera
\* trigger or an interval write happens only after that check for the mode
\* it serves.  ActuationPoints: the positions about to do one of them.
ActuationPoints == {"spin_lock", "spin_step", "trig_enter", "seq_compute", "rot_step"}
C12_ModeChangeResets ==
    /\ [](pc \in ActuationPoints => loc.last_op_mode = loc.current_mode)
    /\ [][(pc = "dispatch" /\ loc.current_mode # loc.last_op_mode) =>
            /\ ~driver'.energized
            /\ loc'.sub_state = "DONE"
            /\ loc.current_mode # "SPIN" => loc'.applied_spin_speed = NO_SPEED_APPLIED
            /\ loc.current_mode = "SPIN" =>
                (pc' = "spin_lock" /\ driver'.stepms = loc.desired_spin_speed)
            /\ loc.current_mode = "SEQUENCE" => pc' = "seq_lock"]_vars
C12_Witness ==
    /\ pc = "trig_enter"
    /\ loc.current_mode = "PICTURE"
    /\ driver.stepms # PULSE_STEPMS
    /\ ~driver.energized

\* C13.  In SPIN every motor step is issued with the driver step interval
\* equal to the current params.speed.
C13_StepAtParamsSpeed ==
    pc = "spin_step" => driver.stepms = DictGet(op_params, "speed", NO_SPEED_APPLIED)

\* C14.  Once the motor loop has observed PICTURE it takes no motor step,
\* triggers the camera once and sets the mode to IDLE: the coils stay
\* released through the branch, the return of the trigger leads to the
\* write of IDLE, and the write (or the one of the except clause, when the
\* trigger raises) is eventually reached.
PictureBranch == {"trig_enter", "trig_pulse", "trig_settle", "pic_lock", "pic_cs"}
C14_PictureThenIdle ==
    /\ []((pc \in PictureBranch /\ loc.current_mode = "PICTURE") => ~driver.energized)
    /\ [][(pc = "trig_settle" /\ loc.current_mode = "PICTURE" /\ pc' # pc) =>
            pc' = "pic_lock"]_vars
    /\ [][(pc = "pic_cs" /\ pc' # pc) => op_mode' = "IDLE"]_vars
    /\ (pc = "trig_enter" /\ loc.current_mode = "PICTURE") ~>
            (op_mode = "IDLE" /\ pc \in {"bcast_check", "top"})
C14_Witness ==
    /\ pc = "bcast_check"
    /\ loc.current_mode = "PICTURE"
    /\ op_mode = "IDLE"
    /\ status_message = StPictureDone
\* C14 as stated: every state with mode PICTURE is followed by one with
\* mode IDLE.
C14_EveryPictureThenIdle == (op_mode = "PICTURE") ~> (op_mode = "IDLE")

\* C15.  A toggle_spin applied by the motor loop in SPIN yields IDLE; applied
\* in any other mode it yields SPIN with params.speed the entry of the speed
\* table at current_speed_index, which it leaves alone.
C15_ToggleSpin ==
    [][(pc = "apply_cs" /\ loc.action = "toggle_spin" /\ pc' # pc) =>
        /\ current_speed_index' = current_speed_index
        /\ IF op_mode = "SPIN"
           THEN op_mode' = "IDLE"
           ELSE /\ op_mode' = "SPIN"
                /\ op_params'["speed"] = SPIN_SPEEDS[current_speed_index + 1]]_vars
C15_Witness ==
    /\ pc = "read_lock"
    /\ obs.press.toggle = 1
    /\ loc.action = "toggle_spin"
    /\ loc.last_op_mode = "IDLE"
    /\ op_mode = "SPIN"
    /\ current_speed_index = INITIAL_SPEED_INDEX
    /\ op_params["speed"] = NORMAL_SPEED

\* C16.  The loop's take of the pending action is atomic for the button
\* handler: the slot holds an action only between a deposit and the take
\* that loads it, the take clears exactly the action it has loaded, its
\* clear erases no deposit made after the load, and a take with no deposit
\* since the last one finds the slot empty.
C16_AtomicTake ==
    /\ [](~obs.slot.erased)
    /\ [](button_action_pending # "None" => (obs.slot.fresh \/ pc = "take_clear"))
    /\ [][(pc = "take_clear" /\ pc' # pc) =>
            /\ loc.action = button_action_pending
            /\ button_action_pending' = "None"
            /\ pc' = "apply_lock"]_vars
    /\ [][(pc = "take" /\ pc' # pc /\ ~obs.slot.fresh) => pc' = "read_lock"]_vars

\* C17.  On entering SEQUENCE total_steps is 360 \div degrees and at least 1
\* when degrees > 0, and 4 when degrees <= 0.
C17_TotalSteps ==
    (pc = "trig_enter" /\ loc.current_mode = "SEQUENCE" /\ loc.seq_step = 0) =>
        loc.seq_total_steps =
            (IF loc.deg <= 0 THEN DEFAULT_TOTAL_STEPS
             ELSE IF FULL_TURN \div loc.deg = 0 THEN 1
             ELSE FULL_TURN \div loc.deg)

\* C18.  The loop's automatic return to IDLE, at the end of the PICTURE
\* branch and of a photo sequence, leaves in place a mode that a command
\* installed after the loop last read the mode.
C18_LastCommandWins ==
    [][(pc \in {"pic_cs", "seq_done_cs"} /\ pc' # pc /\ op_mode # loc.current_mode) =>
        op_mode' = op_mode]_vars

\* C19.  A listener that fails or disconnects during a broadcast of the
\* motor loop does not change op_mode: with listeners as the only source of
\* errors, the loop's except clause never changes the mode.
C19_ListenerFailureKeepsMode ==
    [][(pc = "exc_cs" /\ pc' # pc) => op_mode' = op_mode]_vars

\* C20.  Once the button is released and the loop has closed the debounce
\* window, is_button_down is false.
C20_FlagFollowsButton ==
    (pin = 0 /\ button_state = "IDLE") => ~is_button_down
====
